---- MODULE Spec2Model ----
(***************************************************************************)
(* A model of josolso/ESPP2: the transaction data model (amounts, entry    *)
(* ids), the legacy pickle importer, the command line entry point and the  *)
(* HTTP upload endpoint.                                                   *)
(*                                                                         *)
(* Each part of the program has its own variables, its own next-state      *)
(* relation and its own specification (SpecId, SpecAmount, SpecPickle,     *)
(* SpecCli, SpecWeb); a specification leaves the other parts' variables    *)
(* unchanged.                                                              *)
(***************************************************************************)
EXTENDS Integers, Sequences, FiniteSets, TLC

VARIABLES
    \* datamodels.py: the module-level dict of id counters and the log of
    \* entry constructions of this process
    duplicates, constructions, batch,
    \* the Amount objects of the process (an object is its index in heap) and
    \* the last operation on them, with its operands and what it returned
    heap, last,
    \* plugins/pickle.py: the module-level list records; of the running or
    \* last call of read: its position, its arguments, the keys still to
    \* process, the warnings it logged, what it returned or raised; and the
    \* number of calls so far
    records, ppc, pin, pkeys, pwarnings, presult, reads,
    \* espp2.py, one run of main: its position, the command line, the calls of
    \* the orchestration layer it made, how it ended, the output files it
    \* wrote, and its local variables result and holdings
    cpc, cargs, calls, coutcome, written, cresult, choldings,
    \* web/main.py, the running or last call of create_files: its position,
    \* the request, the response, the exception raised while it was handled,
    \* the calls of the orchestration layer, its local variables, and the
    \* number of requests so far
    wpc, wreq, wresp, wraised, wcalls, wvalue, requests,
    \* datamodels.py: the entries constructed directly, with the keyword
    \* arguments and the result of each construction
    built

idVars == <<duplicates, constructions, batch>>
amountVars == <<heap, last>>
pickleVars == <<records, ppc, pin, pkeys, pwarnings, presult, reads>>
cliVars == <<cpc, cargs, calls, coutcome, written, cresult, choldings>>
webVars == <<wpc, wreq, wresp, wraised, wcalls, wvalue, requests>>
vars == <<duplicates, constructions, batch, heap, last,
          records, ppc, pin, pkeys, pwarnings, presult, reads,
          cpc, cargs, calls, coutcome, written, cresult, choldings,
          wpc, wreq, wresp, wraised, wcalls, wvalue, requests, built>>

(***************************************************************************)
(* Values shared by the parts                                              *)
(***************************************************************************)

\* datetime.date objects, as <<year, month, day>>
Dates == {<<2021, 12, 5>>, <<2022, 1, 20>>}

\* two decimal digits, zero padded ('%m', '%d')
Pad2(n) == IF n < 10 THEN "0" \o ToString(n) ELSE ToString(n)

\* str(date) and date.strftime('%Y-%m-%d'): 'YYYY-MM-DD'
IsoDate(d) == ToString(d[1]) \o "-" \o Pad2(d[2]) \o "-" \o Pad2(d[3])

(***************************************************************************)
(* Entry ids (datamodels.py, get_id and TransactionEntry.validate_id)      *)
(***************************************************************************)

MaxEntries == 3
MaxBatch == 2

\* provenance strings of two transaction files
Sources == {"schwab:a.csv", "schwab:b.csv"}

\* the entry kinds constructed here: SELL has a qty field, WIRE has none
IdTypes == {"SELL", "WIRE"}

\* the values dict the id validator sees: the fields validated before id
IdValues == [type : {"SELL"}, date : Dates, qty : {-10}, source : Sources]
            \cup [type : {"WIRE"}, date : Dates, source : Sources]

\* the key of the counter: d = values['source'] + str(values['date'])
get_id_key(values) == values.source \o IsoDate(values.date)

\* a mutant of get_id_counters: the counter of a known key is not advanced
get_id_counters_stuck(dups, values) ==
    LET d == get_id_key(values)
    IN  IF d \in DOMAIN dups THEN dups ELSE dups @@ (d :> 1)

\* the dict after get_id: duplicates[d] += 1, or duplicates[d] = 1
get_id_counters(dups, values) ==
    LET d == get_id_key(values)
    IN  IF d \in DOMAIN dups
        THEN [dups EXCEPT ![d] = @ + 1]
        ELSE dups @@ (d :> 1)

\* the string get_id returns, given the dict after the update
get_id(dups, values) ==
    LET id == values.type \o " " \o IsoDate(values.date)
    IN  (IF "qty" \in DOMAIN values THEN id \o " " \o ToString(values.qty) ELSE id)
        \o ":" \o ToString(dups[get_id_key(values)])

IdInit ==
    /\ duplicates = <<>>
    /\ constructions = <<>>
    /\ batch = 1

\* Construction of one entry. The id validator runs with always=True after
\* the other fields were validated, so get_id advances the counter also when
\* another field (fieldsOk = FALSE) fails validation and no entry results.
Construct(values, fieldsOk) ==
    /\ Len(constructions) < MaxEntries
    /\ LET dups == get_id_counters(duplicates, values)
       IN  /\ duplicates' = dups
           /\ constructions' = Append(constructions,
                  [values |-> values,
                   key    |-> <<values.source, values.date>>,
                   n      |-> dups[get_id_key(values)],
                   id     |-> get_id(dups, values),
                   batch  |-> batch,
                   ok     |-> fieldsOk])
    /\ UNCHANGED batch

\* A further batch in the same process (a further request of the server, a
\* further file of the run): nothing resets the module-level dict.
NewBatch ==
    /\ batch < MaxBatch
    /\ batch' = batch + 1
    /\ UNCHANGED <<duplicates, constructions>>

(***************************************************************************)
(* Amounts (datamodels.py, Amount, PositiveAmount, NegativeAmount) and the *)
(* entries with a sign-constrained amount (Tax, Fee)                       *)
(***************************************************************************)

MaxObjs == 3
MaxSigned == 1

Currencies == {"USD"}

\* Decimal values, as integers (Decimal arithmetic is exact on them)
Values == {-2, 0, 3}

\* the scalars of a * k
Scalars == {-1, 0, 2}

AmountClasses == {"Amount", "PositiveAmount", "NegativeAmount"}

\* fmv.get_currency(currency, date): the exchange rate to NOK of the
\* reference service, a table of positive rates by currency and date
get_currency(currency, date) == IF date = "2021-12-05" THEN 9 ELSE 10

\* the keyword arguments of Amount(...), as dicts
ExplicitData ==
    {[currency |-> c, value |-> v, nok_value |-> 10 * v, nok_exchange_rate |-> 10] :
        c \in Currencies, v \in Values}
    \cup {[currency |-> "USD", value |-> -2, nok_value |-> 3, nok_exchange_rate |-> 10],
          [currency |-> "USD", value |-> 38, nok_value |-> 100, nok_exchange_rate |-> 10]}
DatedData == [currency : Currencies, value : Values]
AmountData == ExplicitData \cup DatedData \cup {<<>>}

\* amountdate is a date (given as 'YYYY-MM-DD') or None
None == "None"
AmountDates == {IsoDate(d) : d \in Dates} \cup {None}

AmountFields == {"currency", "nok_exchange_rate", "nok_value", "value"}

\* Amount.__init__ up to super().__init__(**data): the rate is looked up for
\* a dated amount without an explicit rate, and no data at all gives the
\* sentinel
AmountInitData(amountdate, data) ==
    IF amountdate # None /\ "nok_exchange_rate" \notin DOMAIN data
    THEN LET exchange_rate == get_currency(data.currency, amountdate)
         IN  ("nok_exchange_rate" :> exchange_rate)
             @@ ("nok_value" :> data.value * exchange_rate)
             @@ data
    ELSE IF DOMAIN data = {}
    THEN [nok_exchange_rate |-> 0, nok_value |-> 0, currency |-> "NA", value |-> 0]
    ELSE data

\* a mutant of value_validator: NegativeAmount checks nothing
value_validator_lax(cls, v) ==
    IF cls = "PositiveAmount" THEN v >= 0 ELSE TRUE

\* PositiveAmount.value_validator raises on v < 0, NegativeAmount's on v > 0,
\* for the fields value and nok_value; Amount has none
value_validator(cls, v) ==
    CASE cls = "PositiveAmount" -> ~(v < 0)
      [] cls = "NegativeAmount" -> ~(v > 0)
      [] OTHER -> TRUE

ValidationError == [ok |-> FALSE, error |-> "ValidationError"]

\* cls(amountdate, **data): the object, the KeyError of a dated amount
\* without currency or value, or the validation error of a missing field or
\* of a value_validator
NewAmountObject(cls, amountdate, data) ==
    IF /\ amountdate # None
       /\ "nok_exchange_rate" \notin DOMAIN data
       /\ ~({"currency", "value"} \subseteq DOMAIN data)
    THEN [ok |-> FALSE, error |-> "KeyError"]
    ELSE LET d == AmountInitData(amountdate, data)
         IN  IF /\ AmountFields \subseteq DOMAIN d
                /\ value_validator(cls, d.value)
                /\ value_validator(cls, d.nok_value)
             THEN [ok |-> TRUE,
                   obj |-> [cls |-> cls, currency |-> d.currency,
                            nok_exchange_rate |-> d.nok_exchange_rate,
                            nok_value |-> d.nok_value, value |-> d.value]]
             ELSE ValidationError

\* a mutant of Amount_mul: the NOK component is not scaled
Amount_mul_native_only(h, self, qty) ==
    LET result == Len(h) + 1
        h1 == Append(h, h[self])
    IN  [heap |-> [h1 EXCEPT ![result].value = @ * qty], ret |-> result]

\* Amount.__mul__: a copy of self with value and nok_value times qty (the
\* assignments to the copy are not validated)
Amount_mul(h, self, qty) ==
    LET result == Len(h) + 1
        h1 == Append(h, h[self])
        h2 == [h1 EXCEPT ![result].value = @ * qty]
        h3 == [h2 EXCEPT ![result].nok_value = @ * qty]
    IN  [heap |-> h3, ret |-> result]

\* isinstance(other, int); the other operand is an int or an Amount
IsInt(other) == "int" \in DOMAIN other

\* the int operands of an addition, as [int |-> n]
IntOperand(n) == [int |-> n]

\* Amount.__add__: a copy of self plus other's value and nok_value; an int
\* has neither attribute
Amount_add(h, self, other) ==
    IF IsInt(other)
    THEN [ok |-> FALSE, error |-> "AttributeError", heap |-> h]
    ELSE LET result == Len(h) + 1
             h1 == Append(h, h[self])
             h2 == [h1 EXCEPT ![result].value = @ + other.value]
             h3 == [h2 EXCEPT ![result].nok_value = @ + other.nok_value]
         IN  [ok |-> TRUE, heap |-> h3, ret |-> result]

\* a mutant of Amount_radd: the int 0 is not special
Amount_radd_no_zero(h, self, other) ==
    IF IsInt(other)
    THEN [ok |-> FALSE, error |-> "AttributeError", heap |-> h]
    ELSE LET result == Len(h) + 1
             h1 == Append(h, h[self])
             h2 == [h1 EXCEPT ![result].value = @ + other.value]
             h3 == [h2 EXCEPT ![result].nok_value = @ + other.nok_value]
         IN  [ok |-> TRUE, heap |-> h3, ret |-> result]

\* Amount.__radd__ (other + self, other not an Amount): self itself for the
\* int 0, else as __add__
Amount_radd(h, self, other) ==
    IF IsInt(other) /\ other.int = 0
    THEN [ok |-> TRUE, heap |-> h, ret |-> self]
    ELSE IF IsInt(other)
    THEN [ok |-> FALSE, error |-> "AttributeError", heap |-> h]
    ELSE LET result == Len(h) + 1
             h1 == Append(h, h[self])
             h2 == [h1 EXCEPT ![result].value = @ + other.value]
             h3 == [h2 EXCEPT ![result].nok_value = @ + other.nok_value]
         IN  [ok |-> TRUE, heap |-> h3, ret |-> result]

\* isinstance(v, cls) for an Amount object v
IsInstance(v, cls) == v.cls = cls \/ cls = "Amount"

\* dict(v) of an Amount object: its fields
AmountDict(v) == [f \in AmountFields |-> v[f]]

\* Validation of a field of type cls (a model class): an instance of cls is
\* taken as it is, without running the validators again; anything else is
\* turned into a dict and given to cls(**dict)
ValidateAmountField(cls, v) ==
    IF "cls" \in DOMAIN v
    THEN IF IsInstance(v, cls)
         THEN [ok |-> TRUE, obj |-> v]
         ELSE NewAmountObject(cls, None, AmountDict(v))
    ELSE NewAmountObject(cls, None, v)

\* the entries whose amount field is a NegativeAmount
SignedTypes == {"TAX", "FEE"}

\* the other fields of the entries constructed here
EntryValues(type) == [type |-> type, date |-> <<2022, 1, 20>>, source |-> "test"]

\* Tax(...) and Fee(...): amount: NegativeAmount, then the id
NewSignedEntry(dups, type, amount) ==
    LET values == EntryValues(type)
        a == ValidateAmountField("NegativeAmount", amount)
        d == get_id_counters(dups, values)
    IN  IF a.ok
        THEN [ok |-> TRUE, dups |-> d,
              entry |-> values @@ [amount |-> a.obj, id |-> get_id(d, values)]]
        ELSE [ok |-> FALSE, error |-> "ValidationError", dups |-> d]

AmountInit ==
    /\ heap = <<>>
    /\ last = [op |-> "none"]

\* a = cls(amountdate, **data); after the first object, only the sentinel
\* Amount() is constructed
NewAmount(cls, amountdate, data) ==
    /\ Len(heap) < MaxObjs
    /\ heap = <<>> \/ (cls = "Amount" /\ amountdate = None /\ data = <<>>)
    /\ LET r == NewAmountObject(cls, amountdate, data)
       IN  /\ heap' = IF r.ok THEN Append(heap, r.obj) ELSE heap
           /\ last' = [op |-> "new", cls |-> cls, amountdate |-> amountdate,
                       data |-> data, ok |-> r.ok, ret |-> Len(heap) + 1]
    /\ UNCHANGED <<idVars, pickleVars, cliVars, webVars, built>>

\* heap[self] * k
Multiply(self, k) ==
    /\ Len(heap) < MaxObjs
    /\ LET r == Amount_mul(heap, self, k)
       IN  /\ heap' = r.heap
           /\ last' = [op |-> "mul", self |-> self, before |-> heap[self],
                       k |-> k, ok |-> TRUE, ret |-> r.ret]
    /\ UNCHANGED <<idVars, pickleVars, cliVars, webVars, built>>

\* heap[self] + other, other an object of the heap or an int
Add(self, other) ==
    /\ Len(heap) < MaxObjs
    /\ LET r == Amount_add(heap, self, other)
       IN  /\ heap' = r.heap
           /\ last' = [op |-> "add", self |-> self, before |-> heap[self],
                       other |-> other, ok |-> r.ok,
                       ret |-> IF r.ok THEN r.ret ELSE 0]
    /\ UNCHANGED <<idVars, pickleVars, cliVars, webVars, built>>

\* other + heap[self], other an int
RAdd(self, other) ==
    /\ Len(heap) < MaxObjs
    /\ LET r == Amount_radd(heap, self, other)
       IN  /\ heap' = r.heap
           /\ last' = [op |-> "radd", self |-> self, before |-> heap[self],
                       other |-> other, ok |-> r.ok,
                       ret |-> IF r.ok THEN r.ret ELSE 0]
    /\ UNCHANGED <<idVars, pickleVars, cliVars, webVars, built>>

\* Tax(amount=...) or Fee(amount=...), the amount an object or a dict
SignedEntry(type, amount) ==
    /\ \A d \in DOMAIN duplicates : duplicates[d] < MaxSigned
    /\ LET r == NewSignedEntry(duplicates, type, amount)
       IN  /\ duplicates' = r.dups
           /\ last' = [op |-> "entry", type |-> type, amount |-> amount,
                       ok |-> r.ok,
                       entry |-> IF r.ok THEN r.entry ELSE <<>>]
    /\ UNCHANGED <<heap, constructions, batch, pickleVars, cliVars, webVars, built>>

IntOperands == {IntOperand(0), IntOperand(1)}

NextAmount ==
    \/ \E cls \in AmountClasses, amountdate \in AmountDates, data \in AmountData :
           NewAmount(cls, amountdate, data)
    \/ \E self \in DOMAIN heap, k \in Scalars : Multiply(self, k)
    \/ \E self \in DOMAIN heap, other \in DOMAIN heap : Add(self, heap[other])
    \/ \E self \in DOMAIN heap, other \in IntOperands : Add(self, other)
    \/ \E self \in DOMAIN heap, other \in IntOperands : RAdd(self, other)
    \/ \E type \in SignedTypes, self \in DOMAIN heap : SignedEntry(type, heap[self])
    \/ \E type \in SignedTypes, data \in ExplicitData : SignedEntry(type, data)

(***************************************************************************)
(* The legacy importer (plugins/pickle.py)                                 *)
(***************************************************************************)

MaxRecs == 2
MaxReads == 2

\* the modules and names a payload may refer to
Modules == {"espp.esppdata", "esppdata", "datetime", "_codecs", "os", "builtins"}
Names == {"ESPPData", "date", "encode", "system", "eval"}

PickleError(msg) == [ok |-> FALSE, error |-> msg]

\* a mutant of find_class: anything of the module datetime is allowed
find_class_any_datetime(module, name) ==
    IF module = "espp.esppdata" /\ name = "ESPPData"
    THEN [ok |-> TRUE, obj |-> "UnpicklerESPP.ESPPData"]
    ELSE IF module = "esppdata" /\ name = "ESPPData"
    THEN [ok |-> TRUE, obj |-> "UnpicklerESPP.ESPPData"]
    ELSE IF module = "datetime"
    THEN [ok |-> TRUE, obj |-> "datetime." \o name]
    ELSE IF module = "_codecs" /\ name = "encode"
    THEN [ok |-> TRUE, obj |-> "codecs.encode"]
    ELSE PickleError("UnpicklingError")

\* UnpicklerESPP.find_class: the object for the four allowed globals, else
\* pickle.UnpicklingError
find_class(module, name) ==
    IF module = "espp.esppdata" /\ name = "ESPPData"
    THEN [ok |-> TRUE, obj |-> "UnpicklerESPP.ESPPData"]
    ELSE IF module = "esppdata" /\ name = "ESPPData"
    THEN [ok |-> TRUE, obj |-> "UnpicklerESPP.ESPPData"]
    ELSE IF module = "datetime" /\ name = "date"
    THEN [ok |-> TRUE, obj |-> "datetime.date"]
    ELSE IF module = "_codecs" /\ name = "encode"
    THEN [ok |-> TRUE, obj |-> "codecs.encode"]
    ELSE PickleError("UnpicklingError")

\* add_string, add_value: rec[name] = value
add_string(rec, name, value) == (name :> value) @@ rec
add_value(rec, name, value) == (name :> value) @@ rec

\* add_date: rec[name] = date.strftime('%Y-%m-%d')
add_date(rec, name, date) == add_string(rec, name, IsoDate(date))

\* add_amount: rec[name] = the amount dict with the rate of the date
add_amount(rec, name, date, currency, amount) ==
    LET datestr == IsoDate(date)
        exch_rate == get_currency(currency, datestr)
        tmp == add_value(add_value(add_value(add_string(<<>>,
                   "currency", currency),
                   "value", amount),
                   "nok_exchange_rate", exch_rate),
                   "nok_value", exch_rate * amount)
    IN  (name :> tmp) @@ rec

\* Decimal.quantize(Decimal('0.0001')), round half even: from a number of
\* 0.00001 to a number of 0.0001
Quantize4(x) ==
    LET q == x \div 10
        r == x % 10
    IN  IF r < 5 THEN q
        ELSE IF r > 5 THEN q + 1
        ELSE IF q % 2 = 0 THEN q ELSE q + 1

\* do_deposit (record.price is held in units of 0.00001, the purchase price
\* in units of 0.0001)
do_deposit(recs, record) ==
    LET date == record.date
        n == record.n
        price == Quantize4(record.price)
        vpd == record.vpd
        r1 == add_date(<<>>, "date", date)
        r2 == add_string(r1, "type", "DEPOSIT")
        r3 == add_string(r2, "symbol", "CSCO")
        r4 == add_string(r3, "description", "ESPP")
        r5 == add_value(r4, "qty", n)
        r6 == add_date(r5, "purchase_date", date)
        r7 == add_amount(r6, "subscription_fmv", date, "USD", vpd)
        r8 == add_amount(r7, "purchase_price", date, "USD", price)
    IN  Append(recs, r8)

\* do_reinvest
do_reinvest(recs, record) ==
    LET date == record.date
        amount == record.amount
        r1 == add_date(<<>>, "date", date)
        r2 == add_string(r1, "type", "DIVIDEND_REINV")
        r3 == add_string(r2, "symbol", "CSCO")
        r4 == add_amount(r3, "amount", date, "USD", -amount)
        r5 == add_string(r4, "description", "")
    IN  Append(recs, r5)

\* a mutant of do_trans: a zero quantity is not skipped
do_trans_no_skip(recs, record) ==
    LET date == record.date
        fee == record.fee
        n == record.n
        price == record.price * n
        r1 == add_date(<<>>, "date", date)
        r2 == add_string(r1, "type", "SELL")
        r3 == add_string(r2, "symbol", "CSCO")
        r4 == add_value(r3, "qty", -n)
        r5 == add_value(r4, "description", "")
        r6 == add_amount(r5, "fee", date, "USD", -fee)
        r7 == add_amount(r6, "amount", date, "USD", price)
    IN  Append(recs, r7)

\* do_trans: a sale; a record with n = 0 is ignored
do_trans(recs, record) ==
    LET date == record.date
        fee == record.fee
        n == record.n
        price == record.price * n
        r1 == add_date(<<>>, "date", date)
        r2 == add_string(r1, "type", "SELL")
        r3 == add_string(r2, "symbol", "CSCO")
        r4 == add_value(r3, "qty", -n)
        r5 == add_value(r4, "description", "")
        r6 == add_amount(r5, "fee", date, "USD", -fee)
        r7 == add_amount(r6, "amount", date, "USD", price)
    IN  IF n = 0 THEN recs ELSE Append(recs, r7)

\* do_trans logs the warning "Zero quantity for sale, ignoring it"
do_trans_warns(record) == record.n = 0

\* do_transfer
do_transfer(recs, record) ==
    LET date == record.date
        fee == record.fee
        n == record.n
        r1 == add_date(<<>>, "date", date)
        r2 == add_string(r1, "type", "TRANSFER")
        r3 == add_value(r2, "qty", -n)
        r4 == add_string(r3, "symbol", "CSCO")
        r5 == add_amount(r4, "fee", date, "USD", -fee)
    IN  Append(recs, r5)

\* do_dividend: the date of the transaction is the pay date
do_dividend(recs, record) ==
    LET date == record.payDate
        amount_ps == record.amount
        payDate == record.payDate
        r1 == add_date(<<>>, "date", date)
        r2 == add_string(r1, "type", "DIVIDEND")
        r3 == add_string(r2, "symbol", "CSCO")
        r4 == add_string(r3, "description", "Credit")
        r5 == add_amount(r4, "amount_ps", payDate, "USD", amount_ps)
    IN  Append(recs, r5)

\* do_tax: a negative amount is a tax returned
do_tax(recs, record) ==
    LET date == record.date
        amount == record.amount
        r1 == add_date(<<>>, "date", date)
        r2 == IF amount < 0
              THEN add_string(r1, "type", "TAXSUB")
              ELSE add_string(r1, "type", "TAX")
        r3 == add_string(r2, "symbol", "CSCO")
        r4 == add_string(r3, "description", "Debit")
        r5 == add_amount(r4, "amount", date, "USD", -amount)
    IN  Append(recs, r5)

\* do_rsu
do_rsu(recs, record) ==
    LET date == record.date
        n == record.n
        price == record.price
        vpd == record.vpd
        r1 == add_date(<<>>, "date", date)
        r2 == add_string(r1, "type", "DEPOSIT")
        r3 == add_string(r2, "symbol", "CSCO")
        r4 == add_string(r3, "description", "RS")
        r5 == add_value(r4, "qty", n)
        r6 == add_date(r5, "purchase_date", date)
        r7 == add_amount(r6, "subscription_fmv", date, "USD", vpd)
        r8 == add_amount(r7, "purchase_price", date, "USD", price)
    IN  Append(recs, r8)

\* do_wire
do_wire(recs, record) ==
    LET date == record.date
        fee == record.fee
        sent == record.sent
        r1 == add_date(<<>>, "date", date)
        r2 == add_string(r1, "type", "WIRE")
        r3 == add_string(r2, "description", "")
        r4 == add_amount(r3, "amount", date, "USD", -sent)
        r5 == add_amount(r4, "fee", date, "USD", -fee)
    IN  Append(recs, r5)

\* do_fee
do_fee(recs, record) ==
    LET date == record.date
        fee == record.amount
        r1 == add_date(<<>>, "date", date)
        r2 == add_string(r1, "type", "FEE")
        r3 == add_amount(r2, "amount", date, "USD", -fee)
    IN  Append(recs, r3)

\* fmv.get_dividend(symbol, date): the ex-dividend date, the declaration date
\* and the dividend per share of the reference service, which has no data
\* for some dates
HasDividendData(symbol, date) == symbol = "CSCO" /\ date = "2022-01-20"
get_dividend(symbol, date) ==
    [exdate |-> "2022-01-04", declarationdate |-> "2021-12-01", dividend_dps |-> 37]

\* the date a 'YYYY-MM-DD' string stands for
ParseIso(s) == CHOOSE d \in Dates : IsoDate(d) = s

\* s < t for 'YYYY-MM-DD' strings: the fields are zero padded, so the order
\* of the strings is the order of year, month and day
DateStrLess(s, t) ==
    LET a == ParseIso(s)
        b == ParseIso(t)
    IN  \/ a[1] < b[1]
        \/ a[1] = b[1] /\ a[2] < b[2]
        \/ a[1] = b[1] /\ a[2] = b[2] /\ a[3] < b[3]

\* sorted(records, key=lambda d: d['date']): a stable sort, so a record goes
\* behind the records that are not later than it
RECURSIVE InsertByDate(_, _)
InsertByDate(sorted, r) ==
    IF sorted = <<>> THEN <<r>>
    ELSE IF DateStrLess(r.date, sorted[Len(sorted)].date)
    THEN Append(InsertByDate(SubSeq(sorted, 1, Len(sorted) - 1), r), sorted[Len(sorted)])
    ELSE Append(sorted, r)

\* a mutant of SortedByDate: the records stay in the order of the keys
SortedByDate_unsorted(recs) == recs

RECURSIVE SortedByDate(_)
SortedByDate(recs) ==
    IF recs = <<>> THEN <<>>
    ELSE InsertByDate(SortedByDate(SubSeq(recs, 1, Len(recs) - 1)), recs[Len(recs)])

\* the record kinds, in the order of their names as strings
KindOrder == <<"BOGUS", "DEPOSIT", "DIVIDEND", "FEE", "JOURNAL", "PURCHASE",
               "REINVEST", "RSU", "TAX", "TRANS", "TRANSFER", "WIRE">>
KindRank(kind) == CHOOSE i \in 1..Len(KindOrder) : KindOrder[i] = kind

\* a key whose first item is no datetime.date
NotADate == <<>>

\* key1 < key2 for keys (date, kind) with dates
KeyLess(k1, k2) ==
    LET a == k1[1]
        b == k2[1]
    IN  \/ a[1] < b[1]
        \/ a[1] = b[1] /\ a[2] < b[2]
        \/ a[1] = b[1] /\ a[2] = b[2] /\ a[3] < b[3]
        \/ a = b /\ KindRank(k1[2]) < KindRank(k2[2])

\* sorted(p.rawData): the keys in ascending order
RECURSIVE SortedKeys(_)
SortedKeys(keys) ==
    IF keys = {} THEN <<>>
    ELSE LET least == CHOOSE k \in keys : \A o \in keys \ {k} : KeyLess(k, o)
         IN  <<least>> \o SortedKeys(keys \ {least})

\* the fields of the entry classes that hold an amount, with their class
AmountFieldsOf(type) ==
    CASE type \in {"BUY", "DEPOSIT"} -> [purchase_price |-> "Amount"]
      [] type = "TAX" -> [amount |-> "NegativeAmount"]
      [] type = "TAXSUB" -> [amount |-> "Amount"]
      [] type = "DIVIDEND" -> [amount |-> "PositiveAmount", amount_ps |-> "PositiveAmount"]
      [] type = "DIVIDEND_REINV" -> [amount |-> "Amount"]
      [] type = "WIRE" -> [amount |-> "Amount", fee |-> "NegativeAmount"]
      [] type = "SELL" -> [fee |-> "NegativeAmount", amount |-> "Amount"]
      [] type = "FEE" -> [amount |-> "NegativeAmount"]
      [] type = "TRANSFER" -> [fee |-> "NegativeAmount"]
      [] type = "CASHADJUST" -> [amount |-> "Amount"]

\* the other declared fields of the entry classes (id apart)
PlainFieldsOf(type) ==
    CASE type = "BUY" -> {"type", "date", "symbol", "qty", "source"}
      [] type = "DEPOSIT" -> {"type", "date", "qty", "symbol", "description",
                              "purchase_date", "source"}
      [] type \in {"TAX", "TAXSUB"} -> {"type", "date", "symbol", "description", "source"}
      [] type = "DIVIDEND" -> {"type", "date", "symbol", "source"}
      [] type = "DIVIDEND_REINV" -> {"type", "date", "symbol", "description", "source"}
      [] type = "WIRE" -> {"type", "date", "description", "source"}
      [] type = "SELL" -> {"type", "date", "symbol", "qty", "description", "source"}
      [] type = "FEE" -> {"type", "date", "source"}
      [] type = "TRANSFER" -> {"type", "date", "symbol", "qty", "source"}
      [] type = "CASHADJUST" -> {"type", "date", "description"}

\* the Optional amount fields, and what an absent one is: None, or the
\* default 0 of Transfer.fee
OptionalAmountFields(type) ==
    CASE type = "DIVIDEND" -> {"amount", "amount_ps"}
      [] type \in {"WIRE", "SELL", "TRANSFER"} -> {"fee"}
      [] OTHER -> {}
\* a mutant of AbsentValue: every absent fee is the default 0
AbsentValue_zero(type, f) == "0"
AbsentValue(type, f) == IF type = "TRANSFER" THEN "0" ELSE None

\* the classes with Config.extra = Extra.allow keep undeclared fields
AllowsExtra(type) == type \in {"BUY", "DEPOSIT", "DIVIDEND"}

\* the validators of single fields: purchase_price_validator of Buy and Deposit,
\* condecimal(lt=0) of Sell.qty
FieldValidatorsHold(rec, amounts) ==
    /\ rec.type \in {"BUY", "DEPOSIT"} =>
           ~(amounts.purchase_price.nok_value < 0 \/ amounts.purchase_price.value < 0)
    /\ rec.type = "SELL" => rec.qty < 0

\* a mutant of ValidateEntry: without the root validator of Dividend
ValidateEntry_no_lookup(rec) ==
    LET classes == AmountFieldsOf(rec.type)
        given == DOMAIN classes \cap DOMAIN rec
        absent == DOMAIN classes \ DOMAIN rec
        results == [f \in given |-> ValidateAmountField(classes[f], rec[f])]
        amounts == [f \in given |-> results[f].obj]
                   @@ [f \in absent |-> AbsentValue(rec.type, f)]
        kept == IF AllowsExtra(rec.type)
                THEN DOMAIN rec \ DOMAIN classes
                ELSE PlainFieldsOf(rec.type)
        enriched == <<>>
    IN  IF ~(PlainFieldsOf(rec.type) \subseteq DOMAIN rec)
        THEN PickleError("ValidationError")
        ELSE IF ~(absent \subseteq OptionalAmountFields(rec.type))
        THEN PickleError("ValidationError")
        ELSE IF \E f \in given : ~results[f].ok
        THEN PickleError("ValidationError")
        ELSE IF ~FieldValidatorsHold(rec, amounts)
        THEN PickleError("ValidationError")
        ELSE [ok |-> TRUE,
              entry |-> enriched @@ amounts @@ [f \in kept |-> rec[f]]]

\* one entry of Transactions(transactions=...): the class of rec['type']
\* validates the dict
ValidateEntry(rec) ==
    LET classes == AmountFieldsOf(rec.type)
        given == DOMAIN classes \cap DOMAIN rec
        absent == DOMAIN classes \ DOMAIN rec
        results == [f \in given |-> ValidateAmountField(classes[f], rec[f])]
        amounts == [f \in given |-> results[f].obj]
                   @@ [f \in absent |-> AbsentValue(rec.type, f)]
        kept == IF AllowsExtra(rec.type)
                THEN DOMAIN rec \ DOMAIN classes
                ELSE PlainFieldsOf(rec.type)
        enriched == IF rec.type = "DIVIDEND"
                    THEN get_dividend(rec.symbol, rec.date)
                    ELSE <<>>
    IN  IF rec.type = "DIVIDEND" /\ ~HasDividendData(rec.symbol, rec.date)
        THEN PickleError("MissingData")
        ELSE IF ~(PlainFieldsOf(rec.type) \subseteq DOMAIN rec)
        THEN PickleError("ValidationError")
        ELSE IF ~(absent \subseteq OptionalAmountFields(rec.type))
        THEN PickleError("ValidationError")
        ELSE IF \E f \in given : ~results[f].ok
        THEN PickleError("ValidationError")
        ELSE IF ~FieldValidatorsHold(rec, amounts)
        THEN PickleError("ValidationError")
        ELSE [ok |-> TRUE,
              entry |-> enriched @@ amounts @@ [f \in kept |-> rec[f]]]

\* Transactions(transactions=recs): the entries in the order given, or the
\* error of an entry that does not validate
ValidateTransactions(recs) ==
    LET results == [i \in 1..Len(recs) |-> ValidateEntry(recs[i])]
    IN  IF \E i \in 1..Len(recs) : ~results[i].ok
        THEN LET first == CHOOSE i \in 1..Len(recs) :
                              /\ ~results[i].ok
                              /\ \A j \in 1..(i - 1) : results[j].ok
             IN  PickleError(results[first].error)
        ELSE [ok |-> TRUE, transactions |-> [i \in 1..Len(recs) |-> results[i].entry]]

\* the legacy records of the payloads
D1 == <<2021, 12, 5>>
D2 == <<2022, 1, 20>>
RawRecords ==
    {[key |-> <<D1, "TRANS">>, record |-> [date |-> D1, n |-> 0, fee |-> 5, price |-> 3]],
     [key |-> <<D1, "TRANS">>, record |-> [date |-> D1, n |-> 2, fee |-> 0, price |-> 3]],
     [key |-> <<D2, "TRANS">>, record |-> [date |-> D2, n |-> -1, fee |-> 5, price |-> 3]],
     [key |-> <<D2, "TRANS">>, record |-> [date |-> D2, n |-> 2, fee |-> 5, price |-> 3]],
     [key |-> <<D2, "TRANS">>, record |-> [date |-> D2, n |-> 2, fee |-> -5, price |-> 3]],
     [key |-> <<D1, "DIVIDEND">>, record |-> [payDate |-> D2, amount |-> 1]],
     [key |-> <<D2, "DIVIDEND">>, record |-> [payDate |-> D1, amount |-> 1]],
     [key |-> <<D2, "FEE">>, record |-> [date |-> D2, amount |-> 25]],
     [key |-> <<D1, "DEPOSIT">>,
      record |-> [date |-> D1, n |-> 10, price |-> 1234565, vpd |-> 15]],
     [key |-> <<D1, "RSU">>, record |-> [date |-> D1, n |-> 4, price |-> 20, vpd |-> 20]],
     [key |-> <<D2, "PURCHASE">>, record |-> [date |-> D2, n |-> 4, price |-> 20, vpd |-> 20]],
     [key |-> <<D1, "REINVEST">>, record |-> [date |-> D1, amount |-> 7, fee |-> 0]],
     [key |-> <<D1, "TAX">>, record |-> [date |-> D1, amount |-> 4]],
     [key |-> <<D2, "TAX">>, record |-> [date |-> D2, amount |-> -3]],
     [key |-> <<D1, "TRANSFER">>, record |-> [date |-> D1, n |-> 5, fee |-> 0]],
     [key |-> <<D2, "JOURNAL">>, record |-> [date |-> D2, sent |-> 100, fee |-> 25]],
     [key |-> <<D1, "WIRE">>, record |-> [date |-> D1, sent |-> 50, fee |-> 0]],
     [key |-> <<D2, "BOGUS">>, record |-> [date |-> D2]],
     [key |-> <<NotADate, "TRANS">>,
      record |-> [date |-> D1, n |-> 2, fee |-> 5, price |-> 3]]}

\* the rawData dicts: at most MaxRecs records, no key twice
RawDatas ==
    {rs \in SUBSET RawRecords :
        /\ Cardinality(rs) <= MaxRecs
        /\ \A a, b \in rs : a.key = b.key => a = b}

\* the globals a payload of the legacy tool refers to, under either module path
LegacyRefs(module) == {<<module, "ESPPData">>, <<"datetime", "date">>, <<"_codecs", "encode">>}

\* the payloads: legacy payloads with any rawData, and payloads that refer
\* to one more global (these with at most one record)
Payloads ==
    {[refs |-> LegacyRefs("espp.esppdata"), rawData |-> rs] : rs \in RawDatas}
    \cup {[refs |-> LegacyRefs("esppdata") \cup {<<m, n>>}, rawData |-> rs] :
             m \in Modules, n \in Names,
             rs \in {{}, {[key |-> <<D2, "FEE">>, record |-> [date |-> D2, amount |-> 25]]}}}

Filenames == {"foo.pickle", "bar.pickle"}

NoResult == [status |-> "none"]

PickleInit ==
    /\ records = <<>>
    /\ ppc = "idle"
    /\ pin = <<>>
    /\ pkeys = <<>>
    /\ pwarnings = 0
    /\ presult = NoResult
    /\ reads = 0

\* read raises: the exception leaves the call
Raise(error) ==
    /\ presult' = [status |-> "error", error |-> error]
    /\ ppc' = "idle"
    /\ pkeys' = <<>>

\* read(pickle_file, filename): records = []
ReadStart(payload, filename) ==
    /\ ppc = "idle"
    /\ reads < MaxReads
    /\ reads' = reads + 1
    /\ pin' = [payload |-> payload, filename |-> filename]
    /\ records' = <<>>
    /\ pwarnings' = 0
    /\ presult' = NoResult
    /\ pkeys' = <<>>
    /\ ppc' = "load"

\* the record of a key in the rawData of the payload
RecordOf(payload, key) == (CHOOSE r \in payload.rawData : r.key = key).record

\* keys that are no dates, in the order sorted gives them (the first one
\* ends the call)
RECURSIVE AnyOrder(_)
AnyOrder(keys) ==
    IF keys = {} THEN <<>>
    ELSE LET k == CHOOSE k \in keys : TRUE
         IN  <<k>> \o AnyOrder(keys \ {k})

\* p = UnpicklerESPP(pickle_file).load() and sorted(p.rawData): find_class is
\* asked for every global of the payload; keys of dates and of other things
\* do not compare
ReadLoad ==
    /\ ppc = "load"
    /\ LET keys == {r.key : r \in pin.payload.rawData}
           dated == {k \in keys : k[1] # NotADate}
       IN  IF \E ref \in pin.payload.refs : ~find_class(ref[1], ref[2]).ok
           THEN Raise("UnpicklingError")
           ELSE IF dated # {} /\ dated # keys
           THEN Raise("TypeError")
           ELSE /\ pkeys' = IF dated = {} THEN AnyOrder(keys) ELSE SortedKeys(keys)
                /\ ppc' = "loop"
                /\ UNCHANGED presult
    /\ UNCHANGED <<records, pin, pwarnings, reads>>

\* the list records after the record of one kind was handled
Dispatch(recs, rectype, record) ==
    CASE rectype = "DEPOSIT" -> do_deposit(recs, record)
      [] rectype = "REINVEST" -> do_reinvest(recs, record)
      [] rectype = "DIVIDEND" -> do_dividend(recs, record)
      [] rectype = "TAX" -> do_tax(recs, record)
      [] rectype \in {"RSU", "PURCHASE"} -> do_rsu(recs, record)
      [] rectype = "TRANSFER" -> do_transfer(recs, record)
      [] rectype = "TRANS" -> do_trans(recs, record)
      [] rectype = "JOURNAL" -> do_wire(recs, record)
      [] rectype = "FEE" -> do_fee(recs, record)
      [] rectype = "WIRE" -> do_wire(recs, record)

HandledKinds == {"DEPOSIT", "REINVEST", "DIVIDEND", "TAX", "RSU", "PURCHASE",
                 "TRANSFER", "TRANS", "JOURNAL", "FEE", "WIRE"}

\* one round of the loop over the sorted keys
ReadRecord ==
    /\ ppc = "loop"
    /\ pkeys # <<>>
    /\ LET key == Head(pkeys)
           rectype == key[2]
           record == RecordOf(pin.payload, key)
       IN  IF key[1] = NotADate
           THEN Raise("Exception") /\ UNCHANGED <<records, pwarnings>>
           ELSE IF rectype \notin HandledKinds
           THEN Raise("ValueError") /\ UNCHANGED <<records, pwarnings>>
           ELSE /\ records' = Dispatch(records, rectype, record)
                /\ pwarnings' = IF rectype = "TRANS" /\ do_trans_warns(record)
                                THEN pwarnings + 1 ELSE pwarnings
                /\ pkeys' = Tail(pkeys)
                /\ UNCHANGED <<ppc, presult>>
    /\ UNCHANGED <<pin, reads>>

\* a mutant of TagSource: the source does not name the file
TagSource_no_file(recs, filename) ==
    [i \in 1..Len(recs) |-> ("source" :> "pickle:") @@ recs[i]]

\* for r in records: r['source'] = f'pickle:{filename}'
TagSource(recs, filename) ==
    [i \in 1..Len(recs) |-> ("source" :> ("pickle:" \o filename)) @@ recs[i]]

\* the end of read: the source of every record, the sort by date and the
\* validation as Transactions (the ids of the entries are those of get_id,
\* see Construct)
ReadFinish ==
    /\ ppc = "loop"
    /\ pkeys = <<>>
    /\ LET tagged == TagSource(records, pin.filename)
           sorted_transactions == SortedByDate(tagged)
           result == ValidateTransactions(sorted_transactions)
       IN  /\ records' = tagged
           /\ presult' = IF result.ok
                         THEN [status |-> "ok", transactions |-> result.transactions]
                         ELSE [status |-> "error", error |-> result.error]
    /\ ppc' = "idle"
    /\ UNCHANGED <<pin, pkeys, pwarnings, reads>>

NextPickle ==
    /\ \/ \E payload \in Payloads, filename \in Filenames : ReadStart(payload, filename)
       \/ ReadLoad
       \/ ReadRecord
       \/ ReadFinish
    /\ UNCHANGED <<idVars, amountVars, cliVars, webVars, built>>

(***************************************************************************)
(* Construction of entries (datamodels.py, Buy .. Cashadjust, Transactions) *)
(***************************************************************************)

\* the largest number of constructions of a run
MaxBuilt == 2

EntryKinds == {"BUY", "DEPOSIT", "TAX", "TAXSUB", "DIVIDEND", "DIVIDEND_REINV",
               "WIRE", "SELL", "TRANSFER", "FEE", "CASHADJUST"}

\* amounts given as keyword arguments: Amount(currency='USD', value=v,
\* nok_value=10 * v, nok_exchange_rate=10)
GivenAmount(v) ==
    [cls |-> "Amount", currency |-> "USD", value |-> v,
     nok_value |-> 10 * v, nok_exchange_rate |-> 10]

\* rec without the key f
Without(rec, f) == [g \in DOMAIN rec \ {f} |-> rec[g]]

\* keyword arguments that give every declared field of the class of kind
\* (and a source, which Cashadjust does not declare)
FullKwargs(kind, date) ==
    LET common == [type |-> kind, date |-> date, source |-> "test"]
    IN  CASE kind = "BUY" ->
                 common @@ [symbol |-> "CSCO", qty |-> 10, purchase_price |-> GivenAmount(3)]
          [] kind = "DEPOSIT" ->
                 common @@ [symbol |-> "CSCO", qty |-> 10, description |-> "",
                            purchase_price |-> GivenAmount(3), purchase_date |-> date]
          [] kind = "TAX" ->
                 common @@ [symbol |-> "CSCO", description |-> "", amount |-> GivenAmount(-2)]
          [] kind = "TAXSUB" ->
                 common @@ [symbol |-> "CSCO", description |-> "", amount |-> GivenAmount(3)]
          [] kind = "DIVIDEND" ->
                 common @@ [symbol |-> "CSCO", amount |-> GivenAmount(3)]
          [] kind = "DIVIDEND_REINV" ->
                 common @@ [symbol |-> "CSCO", description |-> "", amount |-> GivenAmount(3)]
          [] kind = "WIRE" ->
                 common @@ [description |-> "Cash Disbursement", amount |-> GivenAmount(-2),
                            fee |-> GivenAmount(-2)]
          [] kind = "SELL" ->
                 common @@ [symbol |-> "CSCO", qty |-> -10, description |-> "",
                            amount |-> GivenAmount(3), fee |-> GivenAmount(-2)]
          [] kind = "TRANSFER" ->
                 common @@ [symbol |-> "CSCO", qty |-> -10, fee |-> GivenAmount(-2)]
          [] kind = "FEE" -> common @@ [amount |-> GivenAmount(-2)]
          [] kind = "CASHADJUST" ->
                 common @@ [description |-> "", amount |-> GivenAmount(3)]

\* the keyword arguments of the constructions explored: all fields, no
\* source, no fee
EntryKwargs ==
    LET full == {FullKwargs(kind, IsoDate(d)) : kind \in EntryKinds, d \in Dates}
    IN  full
        \cup {Without(k, "source") : k \in full}
        \cup {Without(k, "fee") : k \in {f \in full : "fee" \in DOMAIN f}}

\* the class of kwargs['type'] declares the fields source and id
DeclaresId(type) == type # "CASHADJUST"

\* cls(**kwargs) for the class cls of kwargs['type']: the pre root validator
\* of Dividend, then the fields, then, if the class declares id, validate_id
\* with the validated fields; get_id reads values['source']
NewEntry(dups, kwargs) ==
    LET v == ValidateEntry(kwargs)
    IN  IF kwargs.type = "DIVIDEND" /\ ~HasDividendData(kwargs.symbol, kwargs.date)
        THEN v @@ [dups |-> dups]
        ELSE IF ~DeclaresId(kwargs.type)
        THEN v @@ [dups |-> dups]
        ELSE IF "source" \notin DOMAIN kwargs
        THEN [ok |-> FALSE, error |-> "KeyError", dups |-> dups]
        ELSE LET values == [f \in {"type", "date", "source"}
                                  \cup ({"qty"} \cap PlainFieldsOf(kwargs.type)) |->
                               IF f = "date" THEN ParseIso(kwargs.date) ELSE kwargs[f]]
                 d == get_id_counters(dups, values)
             IN  IF v.ok
                 THEN [ok |-> TRUE, dups |-> d,
                       entry |-> ("id" :> get_id(d, values)) @@ v.entry]
                 ELSE [ok |-> FALSE, error |-> v.error, dups |-> d]

EntryInit == built = <<>>

\* e = cls(**kwargs), and on success Transactions(transactions=[..., e])
BuildEntry(kwargs) ==
    /\ Len(built) < MaxBuilt
    /\ LET r == NewEntry(duplicates, kwargs)
       IN  /\ duplicates' = r.dups
           /\ built' = Append(built, [kwargs |-> kwargs, result |-> Without(r, "dups")])
    /\ UNCHANGED <<constructions, batch, amountVars, pickleVars, cliVars, webVars>>

NextEntry == \E kwargs \in EntryKwargs : BuildEntry(kwargs)

(***************************************************************************)
(* Values of the two entry points                                          *)
(***************************************************************************)

\* Python's None among objects, and the test `if x:` on an object or None
NoneValue == [is |-> "None"]
Truthy(x) == x.is # "None"

\* an exception that was raised, and str(e)
Raised(type, text) == [is |-> "raised", type |-> type, text |-> text]
str(e) == e.text

\* the JSON texts of the runs explored: a holdings snapshot, an expected
\* balance, a list of one wire, the empty list, and a text that is not JSON
HoldingsJson == "{\"year\": 2021, \"broker\": \"schwab\", \"stocks\": [], \"cash\": []}"
BalanceJson == "{\"symbol\": \"CSCO\", \"qty\": 10}"
WiresJson == "[{\"date\": \"2022-01-20\", \"currency\": \"USD\", \"nok_value\": 100, \"value\": 10}]"
EmptyListJson == "[]"
NotJson == "{"

\* json.loads(text): the value, or JSONDecodeError
json_loads(text) ==
    CASE text = HoldingsJson ->
             [ok |-> TRUE, value |-> [year |-> 2021, broker |-> "schwab",
                                      stocks |-> <<>>, cash |-> <<>>]]
      [] text = BalanceJson ->
             [ok |-> TRUE, value |-> [symbol |-> "CSCO", qty |-> 10]]
      [] text = WiresJson ->
             [ok |-> TRUE, value |-> [list |-> <<[date |-> "2022-01-20", currency |-> "USD",
                                                 nok_value |-> 100, value |-> 10]>>]]
      [] text = EmptyListJson -> [ok |-> TRUE, value |-> [list |-> <<>>]]
      [] OTHER -> [ok |-> FALSE, error |-> Raised("JSONDecodeError", "Expecting value")]

\* the required fields of the models that are parsed from JSON
RequiredFields(model) ==
    CASE model = "Holdings" -> {"year", "broker", "stocks", "cash"}
      [] model = "ExpectedBalance" -> {"symbol", "qty"}
      [] model = "Wires" -> {"__root__"}
      [] model = "ESPPResponse" -> {"holdings", "tax_report", "summary"}

\* Model(**data) and parse_obj_as(Model, data): a required field that is
\* missing is a validation error, a field the model does not have is ignored
parse_obj_as(model, data) ==
    IF RequiredFields(model) \subseteq DOMAIN data
    THEN [ok |-> TRUE,
          value |-> [f \in RequiredFields(model) \cup {"is"} |->
                        IF f = "is" THEN model ELSE data[f]]]
    ELSE [ok |-> FALSE, error |-> Raised("ValidationError", "field required")]

\* what espp2.main.do_taxes can return: report, holdings and summary; the
\* callers test result.report, so a result may be without a report
Reports ==
    {NoneValue,
     [is |-> "TaxReport", unmatched_wires |-> <<>>],
     [is |-> "TaxReport", unmatched_wires |-> <<"wire">>]}
StockLists == {<<>>, <<"CSCO">>}
HoldingsObjects == {[is |-> "Holdings", stocks |-> s] : s \in StockLists}
TaxResults ==
    {[is |-> "result", report |-> r, holdings |-> h, summary |-> "summary"] :
        r \in Reports, h \in HoldingsObjects}
\* the exceptions do_taxes and do_holdings_N can raise
TaxErrors == {Raised("Exception", "Unknown broker"), Raised("MissingData", "No fundamentals")}
\* do_taxes(...): returns a result or raises
do_taxes == TaxResults \cup TaxErrors
\* do_holdings_N(...): returns holdings or None, or raises
do_holdings == HoldingsObjects \cup {NoneValue} \cup TaxErrors

(***************************************************************************)
(* The command line entry point (espp2.py, main)                           *)
(***************************************************************************)

\* the largest number of transaction files of a run
MaxFiles == 2

Brokers == {"schwab", "td", "morgan"}

\* logging.getLevelNamesMapping()
lognames == {"CRITICAL", "FATAL", "ERROR", "WARN", "WARNING", "INFO", "DEBUG", "NOTSET"}
Loglevels == {"WARNING", "LOUD"}

\* the command lines explored; an option that is not given is None ("None"
\* for a text, FALSE for a file), and year, wires and verbose, on which main
\* does not branch, are left out
CliArgs ==
    [transaction_files : 1..MaxFiles,
     output : BOOLEAN, outholdings : BOOLEAN, outwires : BOOLEAN,
     broker : Brokers,
     inholdings : BOOLEAN,
     opening_balance : {None, HoldingsJson, BalanceJson, NotJson},
     loglevel : Loglevels,
     preheat_cache : BOOLEAN,
     expected_balance : {None, BalanceJson, NotJson}]

Running == [is |-> "running"]
Success == [is |-> "ok"]
BadParameter(text) == Raised("BadParameter", text)

CliInit ==
    /\ cpc = "idle"
    /\ cargs = <<>>
    /\ calls = <<>>
    /\ coutcome = Running
    /\ written = {}
    /\ cresult = NoneValue
    /\ choldings = NoneValue

\* main ends, by returning or with an exception
Exit(outcome) ==
    /\ cpc' = "exit"
    /\ coutcome' = outcome

\* the process starts main with the parsed command line; result = None
main(args) ==
    /\ cpc = "idle"
    /\ cargs' = args
    /\ cpc' = "loglevel"
    /\ UNCHANGED <<calls, coutcome, written, cresult, choldings>>

\* if loglevel not in lognames: raise typer.BadParameter
CheckLoglevel ==
    /\ cpc = "loglevel"
    /\ IF cargs.loglevel \notin lognames
       THEN Exit(BadParameter("Invalid loglevel: " \o cargs.loglevel))
       ELSE cpc' = "opening" /\ UNCHANGED coutcome
    /\ UNCHANGED <<cargs, calls, written, cresult, choldings>>

\* if opening_balance: json.loads, parse_obj_as(Holdings, ...)
ParseOpeningBalance ==
    /\ cpc = "opening"
    /\ IF cargs.opening_balance = None
       THEN cpc' = "preheat" /\ UNCHANGED coutcome
       ELSE LET j == json_loads(cargs.opening_balance)
            IN  IF ~j.ok THEN Exit(j.error)
                ELSE LET h == parse_obj_as("Holdings", j.value)
                     IN  IF ~h.ok THEN Exit(h.error)
                         ELSE cpc' = "preheat" /\ UNCHANGED coutcome
    /\ UNCHANGED <<cargs, calls, written, cresult, choldings>>

\* if preheat_cache: preheat_cache(). Inside main the name is the bool
\* parameter, not the function imported from espp2.main, so the call is a
\* call of True
Preheat ==
    /\ cpc = "preheat"
    /\ IF cargs.preheat_cache
       THEN Exit(Raised("TypeError", "'bool' object is not callable"))
       ELSE cpc' = "select" /\ UNCHANGED coutcome
    /\ UNCHANGED <<cargs, calls, written, cresult, choldings>>

\* result = do_taxes(...); print_report(...), as main calls them in two places
RunTaxes ==
    \E r \in do_taxes :
        IF r \in TaxErrors
        THEN /\ calls' = Append(calls, "do_taxes")
             /\ Exit(r)
             /\ UNCHANGED cresult
        ELSE /\ calls' = calls \o <<"do_taxes", "print_report">>
             /\ cresult' = r
             /\ cpc' = "outholdings"
             /\ UNCHANGED coutcome

\* the branch `if inholdings:`
TaxesFromInholdings ==
    /\ cpc = "select"
    /\ cargs.inholdings
    /\ IF cargs.transaction_files > 1
       THEN /\ Exit(BadParameter("Cannot use inholdings with multiple transaction files"))
            /\ UNCHANGED <<calls, cresult>>
       ELSE RunTaxes
    /\ UNCHANGED <<cargs, written, choldings>>

\* holdings = do_holdings_N(...)
RunHoldings(name) ==
    \E h \in do_holdings :
        /\ calls' = Append(calls, name)
        /\ IF h \in TaxErrors
           THEN Exit(h) /\ UNCHANGED choldings
           ELSE choldings' = h /\ cpc' = "check" /\ UNCHANGED coutcome

\* the branch `else:`, up to the reconstruction of the holdings
Reconstruct ==
    /\ cpc = "select"
    /\ ~cargs.inholdings
    /\ IF cargs.broker = "morgan"
       THEN RunHoldings("do_holdings_4")
       ELSE IF cargs.expected_balance # None
       THEN LET j == json_loads(cargs.expected_balance)
            IN  IF ~j.ok THEN Exit(j.error) /\ UNCHANGED <<calls, choldings>>
                ELSE LET b == parse_obj_as("ExpectedBalance", j.value)
                     IN  IF ~b.ok THEN Exit(b.error) /\ UNCHANGED <<calls, choldings>>
                         ELSE IF cargs.transaction_files > 1
                         THEN RunHoldings("do_holdings_2")
                         ELSE RunHoldings("do_holdings_3")
       ELSE RunHoldings("do_holdings_1")
    /\ UNCHANGED <<cargs, written, cresult>>

\* a mutant of Fallback: only a reconstruction that returned None falls back
Fallback_only_none ==
    /\ cpc = "check"
    /\ IF ~Truthy(choldings)
       THEN IF cargs.transaction_files > 1
            THEN /\ Exit(BadParameter("Cannot use inholdings with multiple transaction files"))
                 /\ UNCHANGED <<calls, cresult>>
            ELSE RunTaxes
       ELSE cpc' = "outholdings" /\ UNCHANGED <<calls, cresult, coutcome>>
    /\ UNCHANGED <<cargs, written, choldings>>

\* if not holdings or not holdings.stocks: ... do_taxes
Fallback ==
    /\ cpc = "check"
    /\ IF ~Truthy(choldings) \/ choldings.stocks = <<>>
       THEN IF cargs.transaction_files > 1
            THEN /\ Exit(BadParameter("Cannot use inholdings with multiple transaction files"))
                 /\ UNCHANGED <<calls, cresult>>
            ELSE RunTaxes
       ELSE cpc' = "outholdings" /\ UNCHANGED <<calls, cresult, coutcome>>
    /\ UNCHANGED <<cargs, written, choldings>>

\* f.write(j) on an output file, which is created when it is first written
Write(file, content) == written' = written \cup {[file |-> file, content |-> content]}

\* if outholdings: holdings = result.holdings if result else holdings; ...
WriteHoldings ==
    /\ cpc = "outholdings"
    /\ IF cargs.outholdings
       THEN LET holdings == IF Truthy(cresult) THEN cresult.holdings ELSE choldings
            IN  IF ~Truthy(holdings)
                THEN /\ Exit(Raised("AttributeError", "'NoneType' object has no attribute 'json'"))
                     /\ UNCHANGED <<written, choldings>>
                ELSE /\ choldings' = holdings
                     /\ Write("outholdings", holdings)
                     /\ cpc' = "outwires"
                     /\ UNCHANGED coutcome
       ELSE cpc' = "outwires" /\ UNCHANGED <<written, choldings, coutcome>>
    /\ UNCHANGED <<cargs, calls, cresult>>

\* if outwires and result and result.report and result.report.unmatched_wires
WriteWires ==
    /\ cpc = "outwires"
    /\ IF /\ cargs.outwires
          /\ Truthy(cresult)
          /\ Truthy(cresult.report)
          /\ cresult.report.unmatched_wires # <<>>
       THEN LET outw == parse_obj_as("Wires", ("__root__" :> cresult.report.unmatched_wires))
            IN  IF ~outw.ok THEN Exit(outw.error) /\ UNCHANGED written
                ELSE /\ Write("outwires", outw.value)
                     /\ cpc' = "output"
                     /\ UNCHANGED coutcome
       ELSE cpc' = "output" /\ UNCHANGED <<written, coutcome>>
    /\ UNCHANGED <<cargs, calls, cresult, choldings>>

\* if output: j = result.report.json(indent=4); ...
WriteReport ==
    /\ cpc = "output"
    /\ IF cargs.output
       THEN IF ~Truthy(cresult)
            THEN /\ Exit(Raised("AttributeError", "'NoneType' object has no attribute 'report'"))
                 /\ UNCHANGED written
            ELSE IF ~Truthy(cresult.report)
            THEN /\ Exit(Raised("AttributeError", "'NoneType' object has no attribute 'json'"))
                 /\ UNCHANGED written
            ELSE /\ Write("output", cresult.report)
                 /\ Exit(Success)
       ELSE Exit(Success) /\ UNCHANGED written
    /\ UNCHANGED <<cargs, calls, cresult, choldings>>

NextCli ==
    /\ \/ \E args \in CliArgs : main(args)
       \/ CheckLoglevel
       \/ ParseOpeningBalance
       \/ Preheat
       \/ TaxesFromInholdings
       \/ Reconstruct
       \/ Fallback
       \/ WriteHoldings
       \/ WriteWires
       \/ WriteReport
    /\ UNCHANGED <<idVars, amountVars, pickleVars, webVars, built>>

(***************************************************************************)
(* The HTTP upload endpoint (web/main.py, create_files)                    *)
(***************************************************************************)

\* the largest number of requests of a server process
MaxRequests == 2

\* the upload of the form field holdfile: none, an upload without a file
\* name (an empty file input of the form), or a file
Holdfiles == {NoneValue, [is |-> "UploadFile", filename |-> ""],
              [is |-> "UploadFile", filename |-> "holdings.json"]}

\* the requests explored; year, on which create_files does not branch, is
\* left out
Requests ==
    [transaction_files : 1..MaxFiles,
     broker : Brokers,
     holdfile : Holdfiles,
     wires : {"", EmptyListJson, WiresJson, NotJson}]

NoResponse == [status |-> 0]

\* the answer to a request whose handler raised HTTPException
HTTPException(status_code, detail) == [status |-> status_code, detail |-> detail]

\* the answer to a request whose handler raised anything else: the server's
\* own error page, which does not have the exception's text
InternalServerError == [status |-> 500, body |-> "Internal Server Error"]

WebInit ==
    /\ wpc = "idle"
    /\ wreq = <<>>
    /\ wresp = NoResponse
    /\ wraised = NoneValue
    /\ wcalls = <<>>
    /\ wvalue = NoneValue
    /\ requests = 0

\* an exception leaves create_files
Unhandled(e) ==
    /\ wraised' = e
    /\ wresp' = InternalServerError
    /\ wpc' = "idle"

\* POST /files/: opening_balance = None
create_files(req) ==
    /\ wpc = "idle"
    /\ requests < MaxRequests
    /\ requests' = requests + 1
    /\ wreq' = req
    /\ wresp' = NoResponse
    /\ wraised' = NoneValue
    /\ wcalls' = <<>>
    /\ wvalue' = [wires |-> req.wires, holdfile |-> req.holdfile]
    /\ wpc' = "wires"

\* if wires: wires_list = json.loads(wires); wires = Wires(wires=wires_list)
DecodeWires ==
    /\ wpc = "wires"
    /\ IF wreq.wires = ""
       THEN wpc' = "holdfile" /\ UNCHANGED <<wvalue, wresp, wraised>>
       ELSE LET wires_list == json_loads(wreq.wires)
            IN  IF ~wires_list.ok
                THEN Unhandled(wires_list.error) /\ UNCHANGED wvalue
                ELSE LET w == parse_obj_as("Wires", [wires |-> wires_list.value])
                     IN  IF ~w.ok
                         THEN Unhandled(w.error) /\ UNCHANGED wvalue
                         ELSE /\ wvalue' = [wvalue EXCEPT !.wires = w.value]
                              /\ wpc' = "holdfile"
                              /\ UNCHANGED <<wresp, wraised>>
    /\ UNCHANGED <<wreq, wcalls, requests>>

\* if holdfile and holdfile.filename == '': holdfile = None
\* elif holdfile: holdfile = holdfile.file
NormaliseHoldfile ==
    /\ wpc = "holdfile"
    /\ wvalue' = [wvalue EXCEPT !.holdfile =
                     IF Truthy(wreq.holdfile) /\ wreq.holdfile.filename = ""
                     THEN NoneValue
                     ELSE IF Truthy(wreq.holdfile)
                     THEN [is |-> "file", name |-> wreq.holdfile.filename]
                     ELSE wreq.holdfile]
    /\ wpc' = "taxes"
    /\ UNCHANGED <<wreq, wresp, wraised, wcalls, requests>>

\* try: report, holdings, summary = do_taxes(...)
\* except Exception as e: raise HTTPException(status_code=500, detail=str(e))
TryTaxes ==
    /\ wpc = "taxes"
    /\ wcalls' = Append(wcalls, [fn |-> "do_taxes", holdfile |-> wvalue.holdfile,
                                 wires |-> wvalue.wires])
    /\ \E r \in do_taxes :
           IF r \in TaxErrors
           THEN /\ wraised' = r
                /\ wresp' = HTTPException(500, str(r))
                /\ wpc' = "idle"
                /\ UNCHANGED wvalue
           ELSE /\ wvalue' = r
                /\ wpc' = "respond"
                /\ UNCHANGED <<wresp, wraised>>
    /\ UNCHANGED <<wreq, requests>>

\* the fields of an ESPPResponse must be objects: None is not a TaxReport
ESPPResponse(data) ==
    IF \A f \in DOMAIN data : Truthy(data[f])
    THEN parse_obj_as("ESPPResponse", data)
    ELSE [ok |-> FALSE, error |-> Raised("ValidationError", "none is not an allowed value")]

\* return ESPPResponse(tax_report=report, holdings=holdings, summary=summary)
Respond ==
    /\ wpc = "respond"
    /\ LET response == ESPPResponse([tax_report |-> wvalue.report,
                                     holdings |-> wvalue.holdings,
                                     summary |-> [is |-> "TaxSummary"]])
       IN  IF ~response.ok
           THEN Unhandled(response.error)
           ELSE /\ wresp' = [status |-> 200, body |-> response.value]
                /\ wpc' = "idle"
                /\ UNCHANGED wraised
    /\ UNCHANGED <<wreq, wcalls, wvalue, requests>>

NextWeb ==
    /\ \/ \E req \in Requests : create_files(req)
       \/ DecodeWires
       \/ NormaliseHoldfile
       \/ TryTaxes
       \/ Respond
    /\ UNCHANGED <<idVars, amountVars, pickleVars, cliVars, built>>

(***************************************************************************)
(* The specifications                                                      *)
(***************************************************************************)

Init == IdInit /\ AmountInit /\ PickleInit /\ CliInit /\ WebInit /\ EntryInit

NextId ==
    /\ \/ \E values \in IdValues, fieldsOk \in BOOLEAN : Construct(values, fieldsOk)
       \/ NewBatch
    /\ UNCHANGED <<amountVars, pickleVars, cliVars, webVars, built>>

SpecId == Init /\ [][NextId]_vars

SpecAmount == Init /\ [][NextAmount]_vars

SpecPickle == Init /\ [][NextPickle]_vars

SpecCli == Init /\ [][NextCli]_vars

SpecWeb == Init /\ [][NextWeb]_vars

SpecEntry == Init /\ [][NextEntry]_vars

(***************************************************************************)
(* The claims                                                              *)
(***************************************************************************)

\* the entries that exist: the constructions that passed validation
EntryIndexes == {i \in 1..Len(constructions) : constructions[i].ok}

\* the constructions of one (source, date) key, in construction order
SameKey(i, j) == constructions[i].key = constructions[j].key

\* C1: for every (source, date) key, the counters given out are 1, 2, 3, ...
\* in construction order: the first construction with the key gets 1, every
\* later one gets a larger counter than the earlier ones, also when the
\* two constructions are in different batches.
C1_CounterIncreasing ==
    \A j \in 1..Len(constructions) :
        LET earlier == {i \in 1..(j - 1) : SameKey(i, j)}
        IN  /\ constructions[j].n = Cardinality(earlier) + 1
            /\ \A i \in earlier : constructions[i].n < constructions[j].n

\* two entries of one key in different batches, the later with the larger counter
C1_Witness ==
    \E i, j \in EntryIndexes :
        /\ i < j
        /\ SameKey(i, j)
        /\ constructions[i].batch < constructions[j].batch
        /\ constructions[i].n = 1
        /\ constructions[j].n = 2

\* C2: any two distinct entries constructed in the process have different ids.
C2_UniqueIds ==
    \A i, j \in EntryIndexes : i # j => constructions[i].id # constructions[j].id

\* an amount with a positive native or NOK value, as object or as dict
HasPositive(a) == a.value > 0 \/ a.nok_value > 0
HasNegative(a) == a.value < 0 \/ a.nok_value < 0

\* C3: a PositiveAmount with a negative value or nok_value and a
\* NegativeAmount with a positive value or nok_value are never constructed
\* (with zero both are), and no Tax or Fee entry is constructed from an
\* amount that has a positive value or nok_value.
C3_SignConstraints ==
    /\ last.op = "new" /\ AmountFields \subseteq DOMAIN last.data =>
           LET bad == CASE last.cls = "PositiveAmount" -> HasNegative(last.data)
                        [] last.cls = "NegativeAmount" -> HasPositive(last.data)
                        [] OTHER -> FALSE
           IN  last.ok = ~bad
    /\ last.op = "entry" /\ HasPositive(last.amount) => ~last.ok

\* the four fields of an amount agree
SameAmount(a, b) == \A f \in AmountFields : a[f] = b[f]

\* nok_value = value * nok_exchange_rate
Consistent(a) == a.nok_value = a.value * a.nok_exchange_rate

\* C4: an amount constructed from currency, date and value without a rate has
\* the rate looked up for them and nok_value = value * rate; a * k is a new
\* object with value and nok_value times k and the currency and rate of a,
\* consistent when a is, and a is unchanged.
C4_AmountInvariant ==
    /\ (/\ last.op = "new" /\ last.ok
        /\ last.amountdate # None
        /\ "nok_exchange_rate" \notin DOMAIN last.data) =>
           LET a == heap[last.ret]
               rate == get_currency(last.data.currency, last.amountdate)
           IN  /\ a.value = last.data.value
               /\ a.currency = last.data.currency
               /\ a.nok_exchange_rate = rate
               /\ a.nok_value = last.data.value * rate
    /\ last.op = "mul" =>
           LET a == last.before
               r == heap[last.ret]
           IN  /\ last.ok
               /\ last.ret # last.self
               /\ heap[last.self] = a
               /\ r.value = a.value * last.k
               /\ r.nok_value = a.nok_value * last.k
               /\ r.currency = a.currency
               /\ r.nok_exchange_rate = a.nok_exchange_rate
               /\ (Consistent(a) => Consistent(r))

\* a dated amount (rate 9 is the rate of 2021) multiplied by a negative scalar
C4_Witness ==
    /\ last.op = "mul"
    /\ last.k = -1
    /\ last.before.nok_exchange_rate = 9
    /\ last.before.value = 3
    /\ heap[last.ret].nok_value = -27

\* the no-argument amount
IsSentinel(a) ==
    /\ ~IsInt(a)
    /\ a.currency = "NA" /\ a.value = 0 /\ a.nok_value = 0 /\ a.nok_exchange_rate = 0

IsZeroInt(a) == IsInt(a) /\ a.int = 0

\* C5: 0 + a, a + 0, a + Amount() and Amount() + a all succeed and give a
\* result equal to a in currency, value, nok_value and nok_exchange_rate.
C5_ZeroIdentity ==
    /\ last.op = "radd" /\ IsZeroInt(last.other) =>
           last.ok /\ SameAmount(heap[last.ret], last.before)
    /\ last.op = "add" /\ IsZeroInt(last.other) =>
           last.ok /\ SameAmount(heap[last.ret], last.before)
    /\ last.op = "add" /\ IsSentinel(last.other) =>
           last.ok /\ SameAmount(heap[last.ret], last.before)
    /\ last.op = "add" /\ IsSentinel(last.before) /\ ~IsInt(last.other) =>
           last.ok /\ SameAmount(heap[last.ret], last.other)

\* C5, amended: 0 + a is a itself; a + Amount() is a new amount equal to a
\* in the four fields; Amount() + a has the value and nok_value of a but the
\* currency 'NA' and the rate 0 of the sentinel; a + 0 fails. No operand is
\* changed.
C5_ZeroIdentityAmended ==
    /\ last.op = "radd" /\ IsZeroInt(last.other) =>
           last.ok /\ last.ret = last.self /\ heap[last.self] = last.before
    /\ last.op = "add" /\ IsZeroInt(last.other) => ~last.ok
    /\ last.op = "add" /\ IsSentinel(last.other) =>
           /\ last.ok
           /\ last.ret # last.self
           /\ SameAmount(heap[last.ret], last.before)
           /\ heap[last.self] = last.before
    /\ last.op = "add" /\ IsSentinel(last.before) /\ ~IsInt(last.other) =>
           /\ last.ok
           /\ heap[last.ret].value = last.other.value
           /\ heap[last.ret].nok_value = last.other.nok_value
           /\ heap[last.ret].currency = "NA"
           /\ heap[last.ret].nok_exchange_rate = 0

\* Amount() + a for a USD amount a
C5_Witness ==
    /\ last.op = "add" /\ last.ok
    /\ IsSentinel(last.before)
    /\ ~IsInt(last.other)
    /\ last.other.currency = "USD"
    /\ last.other.value = 3
    /\ heap[last.ret].value = 3
    /\ heap[last.ret].currency = "NA"

\* a call of read has ended, by returning or by raising
ReadDone == ppc = "idle" /\ presult.status # "none"

\* the four globals the claim lists
AllowedGlobals == {<<"espp.esppdata", "ESPPData">>, <<"esppdata", "ESPPData">>,
                   <<"datetime", "date">>, <<"_codecs", "encode">>}

\* C6: find_class gives an object for the four listed (module, name) pairs
\* and raises the denial error for every other pair; a call of read whose
\* payload refers to anything else ends with that error, before any record
\* is processed, and returns no transaction list.
C6_AllowList ==
    /\ \A m \in Modules, n \in Names :
           find_class(m, n).ok <=> <<m, n>> \in AllowedGlobals
    /\ ppc # "idle" /\ ~(pin.payload.refs \subseteq AllowedGlobals) =>
           ppc = "load" /\ records = <<>>
    /\ ReadDone /\ ~(pin.payload.refs \subseteq AllowedGlobals) =>
           /\ presult = [status |-> "error", error |-> "UnpicklingError"]
           /\ records = <<>>

\* a second import, of a payload with a record and a reference to
\* datetime.system, was denied
C6_Witness ==
    /\ ReadDone
    /\ reads = 2
    /\ <<"datetime", "system">> \in pin.payload.refs
    /\ pin.payload.rawData # {}
    /\ presult.status = "error"
    /\ presult.error = "UnpicklingError"

\* the payload of the call is a legacy payload of TRANS records only, with
\* dates as keys and fees that are not negative
TransOnly ==
    /\ pin.payload.refs \subseteq AllowedGlobals
    /\ \A r \in pin.payload.rawData :
           r.key[2] = "TRANS" /\ r.key[1] # NotADate /\ r.record.fee >= 0

\* the Sell transactions of the result that come from the TRANS record r
SellsOf(r) ==
    {i \in 1..Len(presult.transactions) :
        LET t == presult.transactions[i]
        IN  /\ t.type = "SELL"
            /\ t.date = IsoDate(r.record.date)
            /\ t.symbol = "CSCO"
            /\ t.qty = -r.record.n
            /\ t.fee.value = -r.record.fee}

ZeroSales == {r \in pin.payload.rawData : r.key[2] = "TRANS" /\ r.record.n = 0}

TypesOfKind(kind) ==
    CASE kind \in {"DEPOSIT", "RSU", "PURCHASE"} -> {"DEPOSIT"}
      [] kind = "REINVEST" -> {"DIVIDEND_REINV"}
      [] kind = "DIVIDEND" -> {"DIVIDEND"}
      [] kind = "TAX" -> {"TAX", "TAXSUB"}
      [] kind = "TRANS" -> {"SELL"}
      [] kind = "TRANSFER" -> {"TRANSFER"}
      [] kind \in {"JOURNAL", "WIRE"} -> {"WIRE"}
      [] kind = "FEE" -> {"FEE"}
      [] OTHER -> {}
DateOfRecord(r) ==
    IsoDate(IF r.key[2] = "DIVIDEND" THEN r.record.payDate ELSE r.record.date)

\* C8: a successful read(file, filename), the first or a later one of the
\* process, returns one transaction per record of that file (zero sales
\* apart) and nothing else, each with source 'pickle:<filename>' and, unless
\* it is a Wire or a Fee, with symbol 'CSCO', in ascending order of date.
C8_ImportTagging ==
    ReadDone /\ presult.status = "ok" =>
        LET ts == presult.transactions
        IN  /\ Len(ts) = Cardinality(pin.payload.rawData \ ZeroSales)
            /\ \A i \in 1..Len(ts) :
                   /\ \E r \in pin.payload.rawData \ ZeroSales :
                          /\ ts[i].type \in TypesOfKind(r.key[2])
                          /\ ts[i].date = DateOfRecord(r)
                   /\ ts[i].source = "pickle:" \o pin.filename
                   /\ ts[i].type \notin {"WIRE", "FEE"} =>
                          "symbol" \in DOMAIN ts[i] /\ ts[i].symbol = "CSCO"
            /\ \A i, j \in 1..Len(ts) : i < j => ~DateStrLess(ts[j].date, ts[i].date)

\* a second import, of another file, whose dividend comes first by key and
\* last by date
C8_Witness ==
    /\ ReadDone /\ presult.status = "ok"
    /\ reads = 2
    /\ pin.filename = "bar.pickle"
    /\ Len(records) = 2
    /\ records[1].type = "DIVIDEND"
    /\ Len(presult.transactions) = 2
    /\ presult.transactions[1].date = "2021-12-05"
    /\ presult.transactions[2].type = "DIVIDEND"
    /\ presult.transactions[2].date = "2022-01-20"
    /\ presult.transactions[2].source = "pickle:bar.pickle"

\* the run of main has two or more transaction files and a prior-holdings
\* file, and an opening balance, if it has one, that is well formed
SeveralFilesWithInholdings ==
    /\ cpc # "idle"
    /\ cargs.transaction_files >= 2
    /\ cargs.inholdings
    /\ cargs.opening_balance \in {None, HoldingsJson}

\* C9: a run of main with two or more transaction files and a
\* prior-holdings file, whatever the other options are (the cache-preheat
\* flag and an opening balance among them), ends in a usage error, and at
\* no point of the run has do_taxes, a do_holdings_N or preheat_cache been
\* invoked or an output file been written.
C9_UsageErrorFirst ==
    SeveralFilesWithInholdings =>
        /\ calls = <<>>
        /\ written = {}
        /\ cpc = "exit" =>
               coutcome.is = "raised" /\ coutcome.type = "BadParameter"

\* a request was answered
Answered == wpc = "idle" /\ requests > 0

\* C10: every request during whose handling an exception was raised (in
\* decoding the wires, in do_taxes or in assembling the response) is
\* answered with status 500 and the exception's text as detail; an answer
\* with status 200 is given only when no exception was raised.
C10_FailureIsolation ==
    Answered =>
        /\ wraised # NoneValue => wresp = HTTPException(500, str(wraised))
        /\ wresp.status = 200 => wraised = NoneValue

\* the number of invocations of fn so far in the run of main
Invocations(fn) == Cardinality({i \in 1..Len(calls) : calls[i] = fn})

ReconstructionPaths == {"do_holdings_1", "do_holdings_2", "do_holdings_3", "do_holdings_4"}

\* the reconstructions invoked so far, in order
Reconstructions == SelectSeq(calls, LAMBDA fn : fn \in ReconstructionPaths)

\* the reconstruction path that the policy names for the command line
ChosenPath ==
    IF cargs.broker = "morgan" THEN "do_holdings_4"
    ELSE IF cargs.expected_balance # None
    THEN IF cargs.transaction_files > 1 THEN "do_holdings_2" ELSE "do_holdings_3"
    ELSE "do_holdings_1"

\* the holdings variable of main holds no stock holdings
NoStockHoldings == ~Truthy(choldings) \/ choldings.stocks = <<>>

\* main is past the selection policy (lines 65-97) without an exception
PastSelection == cpc \in {"outholdings", "outwires", "output"} \/ coutcome = Success

MultipleFilesError == BadParameter("Cannot use inholdings with multiple transaction files")

\* C11: in every run, with a prior-holdings file do_taxes is invoked and no
\* do_holdings_N is; without one exactly one reconstruction, the one the
\* policy names, is invoked, and do_taxes is then invoked if and only if it
\* returned no stock holdings; do_taxes is never invoked more than once.
C11_SelectionPolicy ==
    /\ cpc # "idle" => Invocations("do_taxes") <= 1
    /\ cpc = "exit" /\ cargs.inholdings =>
           Invocations("do_taxes") = 1 /\ Reconstructions = <<>>
    /\ cpc = "exit" /\ ~cargs.inholdings => Reconstructions = <<ChosenPath>>
    /\ cpc \in {"outholdings", "exit"} /\ ~cargs.inholdings /\ cresult = NoneValue
       /\ Reconstructions # <<>> /\ NoStockHoldings =>
           Invocations("do_taxes") = 1

\* C11, amended: do_taxes is never invoked more than once and at most one
\* reconstruction is. With a prior-holdings file no do_holdings_N is
\* invoked, and a run that gets past the selection had one transaction file
\* and invoked do_taxes; with several files it ends in a usage error
\* without do_taxes. Without a prior-holdings file the only reconstruction
\* invoked is the one the policy names, a run that gets past the selection
\* invoked it, and it invoked do_taxes if and only if the reconstruction
\* returned no stock holdings, which takes one transaction file: with
\* several files it ends in a usage error without do_taxes. A run that
\* fails before the selection (loglevel, opening balance, or the call of
\* the preheat flag) invokes nothing.
C11_SelectionPolicyAmended ==
    cpc # "idle" =>
        /\ Invocations("do_taxes") <= 1
        /\ Len(Reconstructions) <= 1
        /\ cargs.inholdings => Reconstructions = <<>>
        /\ ~cargs.inholdings /\ Reconstructions # <<>> => Reconstructions = <<ChosenPath>>
        /\ Invocations("do_taxes") = 1 => cargs.transaction_files = 1
        /\ PastSelection /\ cargs.inholdings => Invocations("do_taxes") = 1
        /\ PastSelection /\ ~cargs.inholdings =>
               /\ Reconstructions = <<ChosenPath>>
               /\ Invocations("do_taxes") = 0 => ~NoStockHoldings
        /\ cpc = "outholdings" /\ ~cargs.inholdings =>
               (Invocations("do_taxes") = 1 <=> NoStockHoldings)
        /\ cpc = "exit" /\ coutcome = MultipleFilesError =>
               /\ cargs.transaction_files > 1
               /\ Invocations("do_taxes") = 0
               /\ cargs.inholdings \/ (Reconstructions = <<ChosenPath>> /\ NoStockHoldings)
        /\ \/ cargs.loglevel \notin lognames
           \/ cargs.opening_balance \notin {None, HoldingsJson}
           \/ cargs.preheat_cache
           => calls = <<>>

\* a run of one file with an expected balance: do_holdings_3 returned
\* holdings without stocks, do_taxes ran, and main returned
C11_Witness ==
    /\ coutcome = Success
    /\ ~cargs.inholdings
    /\ calls = <<"do_holdings_3", "do_taxes", "print_report">>
    /\ cargs.outholdings = FALSE
    /\ choldings.is = "Holdings" /\ choldings.stocks = <<>>

\* the constructions of Dividend entries so far, and the entries that exist
DividendsBuilt == {i \in 1..Len(built) : built[i].kwargs.type = "DIVIDEND"}
EntriesBuilt == {i \in 1..Len(built) : built[i].result.ok}

\* C12: every construction of a Dividend entry looks up (symbol, date): an
\* entry that results has the exdate, declarationdate and dividend_dps of
\* the lookup, and when the lookup fails the construction fails, so every
\* Dividend entry that exists has the three fields.
C12_DividendEnrichment ==
    /\ \A i \in DividendsBuilt :
           LET kwargs == built[i].kwargs
               result == built[i].result
           IN  IF HasDividendData(kwargs.symbol, kwargs.date)
               THEN result.ok =>
                        LET looked == get_dividend(kwargs.symbol, kwargs.date)
                        IN  /\ {"exdate", "declarationdate", "dividend_dps"}
                                   \subseteq DOMAIN result.entry
                            /\ result.entry.exdate = looked.exdate
                            /\ result.entry.declarationdate = looked.declarationdate
                            /\ result.entry.dividend_dps = looked.dividend_dps
               ELSE ~result.ok /\ result.error = "MissingData"
    /\ \A i \in EntriesBuilt :
           built[i].result.entry.type = "DIVIDEND" =>
               {"exdate", "declarationdate", "dividend_dps"}
                   \subseteq DOMAIN built[i].result.entry

\* a Dividend of a date without reference data was refused, and a Dividend
\* of a date with reference data has its exdate
C12_Witness ==
    /\ Len(built) = 2
    /\ built[1].kwargs.type = "DIVIDEND"
    /\ built[1].kwargs.date = "2021-12-05"
    /\ "source" \in DOMAIN built[1].kwargs
    /\ ~built[1].result.ok
    /\ built[2].kwargs.type = "DIVIDEND"
    /\ built[2].result.ok
    /\ built[2].result.entry.exdate = "2022-01-04"
    /\ built[2].result.entry.amount.value = 3

\* C13: constructing a Wire from keyword arguments that are valid and have
\* no fee succeeds, and the fee of the entry is None.
C13_WireWithoutFee ==
    \A i \in 1..Len(built) :
        LET kwargs == built[i].kwargs
            result == built[i].result
        IN  kwargs.type = "WIRE" /\ "fee" \notin DOMAIN kwargs /\ "source" \in DOMAIN kwargs =>
                /\ result.ok
                /\ "fee" \in DOMAIN result.entry
                /\ result.entry.fee = None

\* a Wire without fee was constructed after a Wire with a fee
C13_Witness ==
    /\ Len(built) = 2
    /\ built[1].kwargs.type = "WIRE"
    /\ "fee" \in DOMAIN built[1].kwargs
    /\ built[1].result.ok
    /\ built[1].result.entry.fee.value = -2
    /\ built[2].kwargs.type = "WIRE"
    /\ "fee" \notin DOMAIN built[2].kwargs
    /\ built[2].result.ok
    /\ built[2].result.entry.fee = None
    /\ built[2].result.entry.amount.value = -2

\* main is at the tax report step (line 119): everything before succeeded;
\* and do_taxes, if it ran, returned a result with a report
AtReportStep == cpc = "output" /\ (Truthy(cresult) => Truthy(cresult.report))

\* C14: when an output file is given and main gets to the tax report step,
\* whichever path of the selection policy ran (do_taxes invoked or not),
\* the step writes the tax report to the file and main ends successfully.
C14_ReportWritten ==
    [][AtReportStep /\ cargs.output =>
           /\ coutcome' = Success
           /\ \E w \in written' : w.file = "output" /\ w.content.is = "TaxReport"]_vars

\* the run of main has the preheat flag and is past the preheat step
\* (lines 62-63); the steps before it failed only if the loglevel or the
\* opening balance is malformed
PastPreheatWithFlag ==
    /\ cpc \notin {"idle", "loglevel", "opening", "preheat"}
    /\ cargs.preheat_cache
    /\ cargs.loglevel \in lognames
    /\ cargs.opening_balance \in {None, HoldingsJson}

\* C15: in a run with the preheat flag, preheat_cache of the orchestration
\* layer is invoked once, before every other call of the orchestration
\* layer, and the run goes on to the selection policy: it does not end at
\* the preheat step.
C15_PreheatInvoked ==
    PastPreheatWithFlag =>
        /\ Invocations("preheat_cache") = 1
        /\ calls[1] = "preheat_cache"
        /\ cpc = "exit" =>
               /\ coutcome # Raised("TypeError", "'bool' object is not callable")
               /\ cargs.inholdings \/ Reconstructions # <<>> \/ coutcome.is = "raised"

\* id has the form '<type> <date>[ <qty>]:<n>' for the entry
IdFormOf(entry) ==
    LET head == entry.type \o " " \o entry.date
        stem == IF "qty" \in DOMAIN entry THEN head \o " " \o ToString(entry.qty) ELSE head
    IN  {stem \o ":" \o ToString(n) : n \in 1..Len(built)}

\* C16: every entry that was constructed, of every one of the eleven kinds,
\* has a source string and an id of the form '<type> <date>[ <qty>]:<n>',
\* and no construction without a source gives an entry.
C16_SourceAndId ==
    \A i \in 1..Len(built) :
        LET kwargs == built[i].kwargs
            result == built[i].result
        IN  /\ result.ok =>
                /\ {"source", "id"} \subseteq DOMAIN result.entry
                /\ result.entry.source = kwargs.source
                /\ result.entry.id \in IdFormOf(result.entry)
            /\ "source" \notin DOMAIN kwargs => ~result.ok

====
